---- MODULE Spec2Model ----
(***************************************************************************)
(* ssdsync: the read-compare-write pipeline of src/src/main.rs.            *)
(*                                                                         *)
(* Four tasks run on tokio's current_thread runtime: main (the             *)
(* orchestrator), read_blocks on the source, read_blocks on the target and *)
(* write_blocks on the target.  They exchange Buf values over six bounded  *)
(* mpsc channels.  Buffers are identified by their index in the pool that  *)
(* main allocates; their fields live in the function buf.                  *)
(***************************************************************************)
EXTENDS Integers, Sequences, FiniteSets, TLC

\* ------------------------------------------------------------------------
\* Bounds and program constants
\* ------------------------------------------------------------------------

\* block_size (16 * 1024 in the program), scaled down.
BlockSize == 2

\* Longest source or target file, in bytes.
MaxLen == 5

\* Longest source or target file of the runs checked for progress.
MaxLiveLen == 4

\* Longest source or target file of the runs in which I/O may fail.
MaxFailLen == 3

\* Number of successive runs of the program on the same pair of files.
MaxRuns == 2

\* num_bufs: the capacity of every channel.
NumBufs == 16

\* Number of buffers main allocates into its pool.
PoolSize == 4

\* Values of one byte of a file.
Bytes == {0, 1}

\* "No buffer here": the value of a moved-out variable or an idle task.
NoBuf == -1

BufIds == 0 .. (PoolSize - 1)

Min(a, b) == IF a < b THEN a ELSE b

Max(a, b) == IF a > b THEN a ELSE b

\* All files of at most MaxLen bytes.
Files == UNION {[1 .. l -> Bytes] : l \in 0 .. MaxLen}

\* All files of at most MaxLiveLen bytes.
LiveFiles == UNION {[1 .. l -> Bytes] : l \in 0 .. MaxLiveLen}

\* All files of at most MaxFailLen bytes.
FailFiles == UNION {[1 .. l -> Bytes] : l \in 0 .. MaxFailLen}

VARIABLES
    source,     \* content of the source file
    target,     \* content of the target file
    src_cur,    \* read cursor of source_r
    tgt_cur,    \* read cursor of target_r
    buf,        \* BufIds -> Buf, the fields of every allocated buffer
    buffers,    \* main's pool, a VecDeque of buffers
    bsrc,       \* main's variable bsrc (NoBuf when moved out)
    btgt,       \* main's variable btgt
    bsrc_,      \* result of src_bk_rx.recv() in the pending join!
    btgt_,      \* result of tgt_r_bk_rx.recv() in the pending join!
    bw,         \* result of tgt_w_bk_rx.recv() in the pending join!
    n,          \* main's variable n
    total,      \* main's counter total
    diff,       \* main's counter diff
    pos,        \* main's byte position pos
    pc,         \* main's control point
    src_fw,     \* channel main -> source reader
    src_bk,     \* channel source reader -> main
    tgt_r_fw,   \* channel main -> target reader
    tgt_r_bk,   \* channel target reader -> main
    tgt_w_fw,   \* channel main -> writer, of (pos, buf)
    tgt_w_bk,   \* channel writer -> main
    src_pc,     \* control point of read_blocks(source_r, ..)
    src_buf,    \* the buffer that task holds
    tgt_r_pc,   \* control point of read_blocks(target_r, ..)
    tgt_r_buf,  \* the buffer that task holds
    w_pc,       \* control point of write_blocks
    w_buf,      \* the buffer that task holds
    w_pos,      \* the position of the request that task is serving
    run,        \* history: which run of the program this is
    target0,    \* history: content of the target when this run started
    compared,   \* history: pairs of buffers compared in this run
    requests,   \* history: write requests main sent in this run
    written,    \* history: writes the writer performed in this run
    reads,      \* history: number of reads each reader performed in this run
    filled,     \* history: BufIds -> which read filled the buffer last
    branch      \* history: outcome of main's last comparison

files == <<source, target, src_cur, tgt_cur>>

mainVars == <<buffers, bsrc, btgt, bsrc_, btgt_, bw, n, total, diff, pos, pc>>

chans == <<src_fw, src_bk, tgt_r_fw, tgt_r_bk, tgt_w_fw, tgt_w_bk>>

tasks == <<src_pc, src_buf, tgt_r_pc, tgt_r_buf, w_pc, w_buf, w_pos>>

hist == <<run, target0, compared, requests, written>>

hist2 == <<reads, filled, branch>>

vars == <<files, buf, mainVars, chans, tasks, hist, hist2>>

\* ------------------------------------------------------------------------
\* Buf and the file operations
\* ------------------------------------------------------------------------

\* Buf { data: vec![0; block_size], length: 0 }
NewBuf == [length |-> 0, data |-> [i \in 1 .. BlockSize |-> 0]]

\* Buf::as_slice: the first length bytes of data.
as_slice(b) == SubSeq(b.data, 1, b.length)

\* Mutation of BufEq: the comparison inverted.
BufNe(a, b) == ~ (a.length = b.length /\ a.data = b.data)

\* #[derive(PartialEq)] on Buf: field by field, length and the whole Vec.
BufEq(a, b) == a.length = b.length /\ a.data = b.data

\* Number of bytes file.read(&mut buf.data) returns at cursor cur.
ReadLen(file, cur) == Min(BlockSize, Len(file) - cur)

\* buf.length = file.read(&mut buf.data): the bytes read overwrite the
\* front of data, the rest of data keeps what it held.
FileRead(file, cur, b) ==
    [length |-> ReadLen(file, cur),
     data |-> [i \in 1 .. BlockSize |->
                  IF i <= ReadLen(file, cur) THEN file[cur + i] ELSE b.data[i]]]

\* f.seek(SeekFrom::Start(p)) followed by f.write(bytes).
FileWrite(file, p, bytes) ==
    [i \in 1 .. Max(Len(file), p + Len(bytes)) |->
        IF i > p /\ i <= p + Len(bytes) THEN bytes[i - p]
        ELSE IF i <= Len(file) THEN file[i] ELSE 0]

\* Mutation of Done: the test on differing lengths left out.
DoneOnZeroOnly(s, t) == s.length = 0 \/ t.length = 0

\* Mutation of Done: the tests on a zero length left out.
DoneOnMismatchOnly(s, t) == s.length # t.length

\* The test that ends main's loop.
Done(s, t) == s.length = 0 \/ t.length = 0 \/ s.length # t.length

\* Mutation of EqualBranchPool: btgt is not pushed back.
EqualBranchPoolOne(pool, s, t) == Append(pool, s)

\* Mutation of EqualBranchPool: bsrc pushed twice (Buf is Clone), btgt not.
EqualBranchPoolTwice(pool, s, t) == Append(Append(pool, s), s)

\* buffers.push_back(bsrc); buffers.push_back(btgt) of the equal branch.
EqualBranchPool(pool, s, t) == Append(Append(pool, s), t)

\* Mutation of DiffBranchPool: btgt is not pushed back.
DiffBranchPoolDropped(pool, t) == pool

\* buffers.push_back(btgt) of the differing branch.
DiffBranchPool(pool, t) == Append(pool, t)

\* Mutation of ReturnToPool: push_front instead of push_back.
ReturnToPoolFront(pool, b) == <<b>> \o pool

\* Mutation of ReturnToPool: the writer's buffer is not pushed back.
ReturnToPoolDropped(pool, b) == pool

\* buffers.push_back(bw.unwrap()).
ReturnToPool(pool, b) == Append(pool, b)

\* A buffer no read has filled yet.
NotFilled == [by |-> "none", idx |-> 0, off |-> 0]

\* The idx-th read of reader by, at cursor off.
FilledBy(by, idx, off) == [by |-> by, idx |-> idx, off |-> off]

\* Mutation of WriteRequest: pos already advanced past the pair.
WriteRequestAhead(p, b) == [pos |-> p + BlockSize, buf |-> b]

\* The write request main sends for a differing pair.
WriteRequest(p, b) == [pos |-> p, buf |-> b]

\* ------------------------------------------------------------------------
\* Initial state: both files opened, the three tasks spawned, the pool
\* allocated, no buffer sent yet.
\* ------------------------------------------------------------------------

InitRun ==
    /\ src_cur = 0
    /\ tgt_cur = 0
    /\ buf = [b \in BufIds |-> NewBuf]
    /\ buffers = [i \in 1 .. PoolSize |-> i - 1]
    /\ bsrc = NoBuf /\ btgt = NoBuf
    /\ bsrc_ = NoBuf /\ btgt_ = NoBuf /\ bw = NoBuf
    /\ n = 0 /\ total = 0 /\ diff = 0 /\ pos = 0
    /\ pc = "prime"
    /\ src_fw = <<>> /\ src_bk = <<>>
    /\ tgt_r_fw = <<>> /\ tgt_r_bk = <<>>
    /\ tgt_w_fw = <<>> /\ tgt_w_bk = <<>>
    /\ src_pc = "recv" /\ src_buf = NoBuf
    /\ tgt_r_pc = "recv" /\ tgt_r_buf = NoBuf
    /\ w_pc = "recv" /\ w_buf = NoBuf /\ w_pos = 0
    /\ compared = 0
    /\ requests = <<>>
    /\ written = <<>>
    /\ reads = [src |-> 0, tgt |-> 0]
    /\ filled = [b \in BufIds |-> NotFilled]
    /\ branch = "none"

Init ==
    /\ source \in Files
    /\ target \in Files
    /\ target0 = target
    /\ run = 1
    /\ InitRun

\* The same initial state, over the shorter files.
InitLive ==
    /\ source \in LiveFiles
    /\ target \in LiveFiles
    /\ target0 = target
    /\ run = 1
    /\ InitRun

\* The same initial state, over the files of the runs in which I/O may fail.
InitFail ==
    /\ source \in FailFiles
    /\ target \in FailFiles
    /\ target0 = target
    /\ run = 1
    /\ InitRun

\* The runtime polls the spawned tasks only while main is running.
Running == pc \notin {"done", "panicked"}

\* A task that returned ("ended") or panicked is gone, and with it its ends
\* of the channels.
TaskEnded(p) == p \in {"ended", "panicked"}

\* Mutation of ChannelClosed: main kept a clone of the sender, the channel
\* never closes.
ChannelNeverClosed(p, ch) == FALSE

\* recv() on a channel returns None: the task that held the only sender is
\* gone and the channel is empty.
ChannelClosed(p, ch) == TaskEnded(p) /\ ch = <<>>

\* ------------------------------------------------------------------------
\* read_blocks(source_r, src_fw_rx, src_bk_tx)
\* ------------------------------------------------------------------------

SrcRecv ==
    /\ Running
    /\ src_pc = "recv"
    /\ src_fw # <<>>
    /\ src_buf' = Head(src_fw)
    /\ src_fw' = Tail(src_fw)
    /\ src_pc' = "read"
    /\ UNCHANGED <<hist2, files, buf, mainVars, src_bk, tgt_r_fw, tgt_r_bk,
                   tgt_w_fw, tgt_w_bk, tgt_r_pc, tgt_r_buf, w_pc, w_buf, w_pos,
                   hist>>

\* Mutation of SrcRead: a read of 0 bytes ends the task, the buffer is not
\* sent back.
SrcReadStopAtEof ==
    /\ Running
    /\ src_pc = "read"
    /\ Len(src_bk) < NumBufs
    /\ buf' = [buf EXCEPT ![src_buf] = FileRead(source, src_cur, @)]
    /\ src_cur' = src_cur + ReadLen(source, src_cur)
    /\ IF ReadLen(source, src_cur) = 0
          THEN src_bk' = src_bk /\ src_pc' = "ended"
          ELSE src_bk' = Append(src_bk, src_buf) /\ src_pc' = "recv"
    /\ src_buf' = NoBuf
    /\ reads' = [reads EXCEPT !.src = @ + 1]
    /\ filled' = [filled EXCEPT
                     ![src_buf] = FilledBy("src", reads.src + 1, src_cur)]
    /\ UNCHANGED <<branch, source, target, tgt_cur, mainVars, src_fw, tgt_r_fw,
                   tgt_r_bk, tgt_w_fw, tgt_w_bk, tgt_r_pc, tgt_r_buf, w_pc,
                   w_buf, w_pos, hist>>

\* The read completes and the filled buffer is sent back: the send follows
\* the read in the same poll of the task, the channel having room.
SrcRead ==
    /\ Running
    /\ src_pc = "read"
    /\ Len(src_bk) < NumBufs
    /\ buf' = [buf EXCEPT ![src_buf] = FileRead(source, src_cur, @)]
    /\ src_cur' = src_cur + ReadLen(source, src_cur)
    /\ src_bk' = Append(src_bk, src_buf)
    /\ src_buf' = NoBuf
    /\ src_pc' = "recv"
    /\ reads' = [reads EXCEPT !.src = @ + 1]
    /\ filled' = [filled EXCEPT
                     ![src_buf] = FilledBy("src", reads.src + 1, src_cur)]
    /\ UNCHANGED <<branch, source, target, tgt_cur, mainVars, src_fw, tgt_r_fw,
                   tgt_r_bk, tgt_w_fw, tgt_w_bk, tgt_r_pc, tgt_r_buf, w_pc,
                   w_buf, w_pos, hist>>

\* ------------------------------------------------------------------------
\* read_blocks(target_r, tgt_r_fw_rx, tgt_r_bk_tx)
\* ------------------------------------------------------------------------

TgtRecv ==
    /\ Running
    /\ tgt_r_pc = "recv"
    /\ tgt_r_fw # <<>>
    /\ tgt_r_buf' = Head(tgt_r_fw)
    /\ tgt_r_fw' = Tail(tgt_r_fw)
    /\ tgt_r_pc' = "read"
    /\ UNCHANGED <<hist2, files, buf, mainVars, src_fw, src_bk, tgt_r_bk,
                   tgt_w_fw, tgt_w_bk, src_pc, src_buf, w_pc, w_buf, w_pos,
                   hist>>

TgtRead ==
    /\ Running
    /\ tgt_r_pc = "read"
    /\ Len(tgt_r_bk) < NumBufs
    /\ buf' = [buf EXCEPT ![tgt_r_buf] = FileRead(target, tgt_cur, @)]
    /\ tgt_cur' = tgt_cur + ReadLen(target, tgt_cur)
    /\ tgt_r_bk' = Append(tgt_r_bk, tgt_r_buf)
    /\ tgt_r_buf' = NoBuf
    /\ tgt_r_pc' = "recv"
    /\ reads' = [reads EXCEPT !.tgt = @ + 1]
    /\ filled' = [filled EXCEPT
                     ![tgt_r_buf] = FilledBy("tgt", reads.tgt + 1, tgt_cur)]
    /\ UNCHANGED <<branch, source, target, src_cur, mainVars, src_fw, src_bk,
                   tgt_r_fw, tgt_w_fw, tgt_w_bk, src_pc, src_buf, w_pc, w_buf,
                   w_pos, hist>>

\* ------------------------------------------------------------------------
\* write_blocks(target_w, tgt_w_fw_rx, tgt_w_bk_tx)
\* ------------------------------------------------------------------------

WRecv ==
    /\ Running
    /\ w_pc = "recv"
    /\ tgt_w_fw # <<>>
    /\ w_pos' = Head(tgt_w_fw).pos
    /\ w_buf' = Head(tgt_w_fw).buf
    /\ tgt_w_fw' = Tail(tgt_w_fw)
    /\ w_pc' = "write"
    /\ UNCHANGED <<hist2, files, buf, mainVars, src_fw, src_bk, tgt_r_fw,
                   tgt_r_bk, tgt_w_bk, src_pc, src_buf, tgt_r_pc, tgt_r_buf,
                   hist>>

\* Seek, write, and the written buffer is sent back.
WWrite ==
    /\ Running
    /\ w_pc = "write"
    /\ Len(tgt_w_bk) < NumBufs
    /\ target' = FileWrite(target, w_pos, as_slice(buf[w_buf]))
    /\ written' = Append(written, [pos |-> w_pos,
                                   len |-> Len(as_slice(buf[w_buf]))])
    /\ tgt_w_bk' = Append(tgt_w_bk, w_buf)
    /\ w_buf' = NoBuf
    /\ w_pc' = "recv"
    /\ UNCHANGED <<hist2, source, src_cur, tgt_cur, buf, mainVars, src_fw,
                   src_bk, tgt_r_fw, tgt_r_bk, tgt_w_fw, src_pc, src_buf,
                   tgt_r_pc, tgt_r_buf, w_pos, run, target0, compared,
                   requests>>

\* ------------------------------------------------------------------------
\* main
\* ------------------------------------------------------------------------

\* The join! of the first two sends and the first two receives is entered:
\* both buffers are popped when the futures are built, and both sends
\* complete in the first poll of the join! when the channels have room.
MainPrime ==
    /\ pc = "prime"
    /\ Len(buffers) >= 2
    /\ Len(src_fw) < NumBufs /\ Len(tgt_r_fw) < NumBufs
    /\ src_fw' = Append(src_fw, buffers[1])
    /\ tgt_r_fw' = Append(tgt_r_fw, buffers[2])
    /\ buffers' = Tail(Tail(buffers))
    /\ pc' = "join_prime"
    /\ UNCHANGED <<hist2, files, buf, bsrc, btgt, bsrc_, btgt_, bw, n, total,
                   diff, pos, src_bk, tgt_r_bk, tgt_w_fw, tgt_w_bk, tasks,
                   hist>>

\* src_bk_rx.recv() of the pending join! completes.
MainRecvSrc ==
    /\ pc \in {"join_prime", "join_eq", "join_diff"}
    /\ bsrc_ = NoBuf
    /\ src_bk # <<>>
    /\ bsrc_' = Head(src_bk)
    /\ src_bk' = Tail(src_bk)
    /\ UNCHANGED <<hist2, files, buf, buffers, bsrc, btgt, btgt_, bw, n, total,
                   diff, pos, pc, src_fw, tgt_r_fw, tgt_r_bk, tgt_w_fw,
                   tgt_w_bk, tasks, hist>>

\* tgt_r_bk_rx.recv() of the pending join! completes.
MainRecvTgt ==
    /\ pc \in {"join_prime", "join_eq", "join_diff"}
    /\ btgt_ = NoBuf
    /\ tgt_r_bk # <<>>
    /\ btgt_' = Head(tgt_r_bk)
    /\ tgt_r_bk' = Tail(tgt_r_bk)
    /\ UNCHANGED <<hist2, files, buf, buffers, bsrc, btgt, bsrc_, bw, n, total,
                   diff, pos, pc, src_fw, src_bk, tgt_r_fw, tgt_w_fw, tgt_w_bk,
                   tasks, hist>>

\* tgt_w_bk_rx.recv() of the pending join! completes.
MainRecvW ==
    /\ pc = "join_diff"
    /\ bw = NoBuf
    /\ tgt_w_bk # <<>>
    /\ bw' = Head(tgt_w_bk)
    /\ tgt_w_bk' = Tail(tgt_w_bk)
    /\ UNCHANGED <<hist2, files, buf, buffers, bsrc, btgt, bsrc_, btgt_, n,
                   total, diff, pos, pc, src_fw, src_bk, tgt_r_fw, tgt_r_bk,
                   tgt_w_fw, tasks, hist>>

\* The first join! returns: bsrc = bsrc_.unwrap(); btgt = btgt_.unwrap().
MainJoinPrime ==
    /\ pc = "join_prime"
    /\ bsrc_ # NoBuf /\ btgt_ # NoBuf
    /\ bsrc' = bsrc_ /\ btgt' = btgt_
    /\ bsrc_' = NoBuf /\ btgt_' = NoBuf
    /\ pc' = "loop"
    /\ UNCHANGED <<hist2, files, buf, buffers, bw, n, total, diff, pos, chans,
                   tasks, hist>>

\* Top of the loop, the pair ends the run: break, then print the counts.
MainBreak ==
    /\ pc = "loop"
    /\ Done(buf[bsrc], buf[btgt])
    /\ pc' = "done"
    /\ UNCHANGED <<hist2, files, buf, buffers, bsrc, btgt, bsrc_, btgt_, bw, n,
                   total, diff, pos, chans, tasks, hist>>

\* Top of the loop, the pair compares equal: two pool buffers go to the
\* readers, the pair goes back to the pool, main waits for the next pair.
MainEqual ==
    /\ pc = "loop"
    /\ ~ Done(buf[bsrc], buf[btgt])
    /\ Len(buffers) >= 2
    /\ Len(src_fw) < NumBufs /\ Len(tgt_r_fw) < NumBufs
    /\ BufEq(buf[bsrc], buf[btgt])
    /\ n' = buf[bsrc].length
    /\ src_fw' = Append(src_fw, buffers[1])
    /\ tgt_r_fw' = Append(tgt_r_fw, buffers[2])
    /\ buffers' = EqualBranchPool(Tail(Tail(buffers)), bsrc, btgt)
    /\ bsrc' = NoBuf /\ btgt' = NoBuf
    /\ compared' = compared + 1
    /\ pc' = "join_eq"
    /\ branch' = "equal"
    /\ UNCHANGED <<reads, filled, files, buf, bsrc_, btgt_, bw, total, diff,
                   pos, src_bk, tgt_r_bk, tgt_w_fw, tgt_w_bk, tasks, run,
                   target0, requests, written>>

\* The join! of the equal branch returns; continue.
MainJoinEq ==
    /\ pc = "join_eq"
    /\ bsrc_ # NoBuf /\ btgt_ # NoBuf
    /\ bsrc' = bsrc_ /\ btgt' = btgt_
    /\ bsrc_' = NoBuf /\ btgt_' = NoBuf
    /\ pc' = "loop"
    /\ UNCHANGED <<hist2, files, buf, buffers, bw, n, total, diff, pos, chans,
                   tasks, hist>>

\* Top of the loop, the pair differs: two pool buffers go to the readers,
\* btgt goes back to the pool, (pos, bsrc) goes to the writer.
MainDiffer ==
    /\ pc = "loop"
    /\ ~ Done(buf[bsrc], buf[btgt])
    /\ Len(buffers) >= 2
    /\ Len(src_fw) < NumBufs /\ Len(tgt_r_fw) < NumBufs
    /\ Len(tgt_w_fw) < NumBufs
    /\ ~ BufEq(buf[bsrc], buf[btgt])
    /\ n' = buf[bsrc].length
    /\ src_fw' = Append(src_fw, buffers[1])
    /\ tgt_r_fw' = Append(tgt_r_fw, buffers[2])
    /\ buffers' = DiffBranchPool(Tail(Tail(buffers)), btgt)
    /\ tgt_w_fw' = Append(tgt_w_fw, WriteRequest(pos, bsrc))
    /\ bsrc' = NoBuf /\ btgt' = NoBuf
    /\ compared' = compared + 1
    /\ requests' = Append(requests, [pos |-> pos, len |-> buf[bsrc].length])
    /\ pc' = "join_diff"
    /\ branch' = "differ"
    /\ UNCHANGED <<reads, filled, files, buf, bsrc_, btgt_, bw, total, diff,
                   pos, src_bk, tgt_r_bk, tgt_w_bk, tasks, run, target0,
                   written>>

\* Mutation of MainJoinDiff: the join! does not wait for the writer.
MainJoinDiffNoWait ==
    /\ pc = "join_diff"
    /\ bsrc_ # NoBuf /\ btgt_ # NoBuf
    /\ bsrc' = bsrc_ /\ btgt' = btgt_
    /\ bsrc_' = NoBuf /\ btgt_' = NoBuf
    /\ diff' = diff + 1
    /\ total' = total + 1
    /\ pos' = pos + n
    /\ pc' = "loop"
    /\ UNCHANGED <<hist2, files, buf, buffers, bw, n, chans, tasks, hist>>

\* Mutation of MainJoinDiff: the two received buffers are assigned crosswise.
MainJoinDiffSwapped ==
    /\ pc = "join_diff"
    /\ bsrc_ # NoBuf /\ btgt_ # NoBuf /\ bw # NoBuf
    /\ bsrc' = btgt_ /\ btgt' = bsrc_
    /\ bsrc_' = NoBuf /\ btgt_' = NoBuf /\ bw' = NoBuf
    /\ buffers' = ReturnToPool(buffers, bw)
    /\ diff' = diff + 1
    /\ total' = total + 1
    /\ pos' = pos + n
    /\ pc' = "loop"
    /\ UNCHANGED <<hist2, files, buf, n, chans, tasks, hist>>

\* The join! of the differing branch returns: the writer's buffer goes back
\* to the pool and the counters advance.
MainJoinDiff ==
    /\ pc = "join_diff"
    /\ bsrc_ # NoBuf /\ btgt_ # NoBuf /\ bw # NoBuf
    /\ bsrc' = bsrc_ /\ btgt' = btgt_
    /\ bsrc_' = NoBuf /\ btgt_' = NoBuf /\ bw' = NoBuf
    /\ buffers' = ReturnToPool(buffers, bw)
    /\ diff' = diff + 1
    /\ total' = total + 1
    /\ pos' = pos + n
    /\ pc' = "loop"
    /\ UNCHANGED <<hist2, files, buf, n, chans, tasks, hist>>

\* The program is started again on the same two files.
Restart ==
    /\ pc = "done"
    /\ run < MaxRuns
    /\ run' = run + 1
    /\ target0' = target
    /\ src_cur' = 0
    /\ tgt_cur' = 0
    /\ buf' = [b \in BufIds |-> NewBuf]
    /\ buffers' = [i \in 1 .. PoolSize |-> i - 1]
    /\ bsrc' = NoBuf /\ btgt' = NoBuf
    /\ bsrc_' = NoBuf /\ btgt_' = NoBuf /\ bw' = NoBuf
    /\ n' = 0 /\ total' = 0 /\ diff' = 0 /\ pos' = 0
    /\ pc' = "prime"
    /\ src_fw' = <<>> /\ src_bk' = <<>>
    /\ tgt_r_fw' = <<>> /\ tgt_r_bk' = <<>>
    /\ tgt_w_fw' = <<>> /\ tgt_w_bk' = <<>>
    /\ src_pc' = "recv" /\ src_buf' = NoBuf
    /\ tgt_r_pc' = "recv" /\ tgt_r_buf' = NoBuf
    /\ w_pc' = "recv" /\ w_buf' = NoBuf /\ w_pos' = 0
    /\ compared' = 0
    /\ requests' = <<>>
    /\ written' = <<>>
    /\ reads' = [src |-> 0, tgt |-> 0]
    /\ filled' = [b \in BufIds |-> NotFilled]
    /\ branch' = "none"
    /\ UNCHANGED <<source, target>>

Next ==
    \/ SrcRecv \/ SrcRead
    \/ TgtRecv \/ TgtRead
    \/ WRecv \/ WWrite
    \/ MainPrime \/ MainRecvSrc \/ MainRecvTgt \/ MainRecvW
    \/ MainJoinPrime \/ MainBreak \/ MainEqual \/ MainJoinEq
    \/ MainDiffer \/ MainJoinDiff

\* One run of the program.
Spec == Init /\ [][Next]_vars

\* The steps of each of the four tasks.
SrcTask == SrcRecv \/ SrcRead

TgtTask == TgtRecv \/ TgtRead

WTask == WRecv \/ WWrite

MainTask ==
    \/ MainPrime \/ MainRecvSrc \/ MainRecvTgt \/ MainRecvW
    \/ MainJoinPrime \/ MainBreak \/ MainEqual \/ MainJoinEq
    \/ MainDiffer \/ MainJoinDiff

\* The runtime polls every task that can make progress, and every read and
\* write of a file completes.
Fairness ==
    /\ WF_vars(SrcTask)
    /\ WF_vars(TgtTask)
    /\ WF_vars(WTask)
    /\ WF_vars(MainTask)

\* One run of the program under fair scheduling.
FairSpec == InitLive /\ [][Next]_vars /\ Fairness

NextTwice == Next \/ Restart

\* ------------------------------------------------------------------------
\* I/O failures
\* ------------------------------------------------------------------------

\* file.read fails in the source reader: panic!, the task is gone and its
\* buffer with it.
SrcReadFail ==
    /\ Running
    /\ src_pc = "read"
    /\ src_pc' = "panicked"
    /\ src_buf' = NoBuf
    /\ UNCHANGED <<hist2, files, buf, mainVars, chans, tgt_r_pc, tgt_r_buf,
                   w_pc, w_buf, w_pos, hist>>

\* file.read fails in the target reader.
TgtReadFail ==
    /\ Running
    /\ tgt_r_pc = "read"
    /\ tgt_r_pc' = "panicked"
    /\ tgt_r_buf' = NoBuf
    /\ UNCHANGED <<hist2, files, buf, mainVars, chans, src_pc, src_buf,
                   w_pc, w_buf, w_pos, hist>>

\* f.seek or f.write returns Err: the writer prints and returns, nothing
\* is written.
WFail ==
    /\ Running
    /\ w_pc = "write"
    /\ w_pc' = "ended"
    /\ w_buf' = NoBuf
    /\ UNCHANGED <<hist2, files, buf, mainVars, chans, src_pc, src_buf,
                   tgt_r_pc, tgt_r_buf, w_pos, hist>>

\* f.write writes only k bytes, fewer than buf.length: the writer prints
\* and returns.
WShortWrite ==
    /\ Running
    /\ w_pc = "write"
    /\ \E k \in 0 .. (buf[w_buf].length - 1) :
          /\ target' = FileWrite(target, w_pos, SubSeq(buf[w_buf].data, 1, k))
          /\ written' = Append(written, [pos |-> w_pos, len |-> k])
    /\ w_pc' = "ended"
    /\ w_buf' = NoBuf
    /\ UNCHANGED <<hist2, source, src_cur, tgt_cur, buf, mainVars, chans,
                   src_pc, src_buf, tgt_r_pc, tgt_r_buf, w_pos, run, target0,
                   compared, requests>>

\* recv() of the pending join! has returned a buffer or returns None.
SrcResolved == bsrc_ # NoBuf \/ ChannelClosed(src_pc, src_bk)

TgtResolved == btgt_ # NoBuf \/ ChannelClosed(tgt_r_pc, tgt_r_bk)

WResolved == bw # NoBuf \/ ChannelClosed(w_pc, tgt_w_bk)

\* The pending join! returns with a None among its results: the unwrap()
\* on it panics, main ends without printing the counts.
MainPanic ==
    /\ pc \in {"join_prime", "join_eq", "join_diff"}
    /\ SrcResolved /\ TgtResolved
    /\ pc = "join_diff" => WResolved
    /\ \/ bsrc_ = NoBuf
       \/ btgt_ = NoBuf
       \/ pc = "join_diff" /\ bw = NoBuf
    /\ pc' = "panicked"
    /\ UNCHANGED <<hist2, files, buf, buffers, bsrc, btgt, bsrc_, btgt_, bw, n,
                   total, diff, pos, chans, tasks, hist>>

NextFail ==
    \/ Next
    \/ SrcReadFail \/ TgtReadFail \/ WFail \/ WShortWrite
    \/ MainPanic

\* One run of the program in which reads and writes may fail, under fair
\* scheduling; no failure is ever forced.
FailSpec ==
    /\ InitFail
    /\ [][NextFail]_vars
    /\ Fairness
    /\ WF_vars(MainPanic)

\* MaxRuns successive runs of the program on the same two files.
SpecTwice == Init /\ [][NextTwice]_vars

\* ------------------------------------------------------------------------
\* Vocabulary of the properties
\* ------------------------------------------------------------------------

\* Source and target of this run have the same length.
EqualLength == Len(source) = Len(target0)

LenDiffer == Len(source) # Len(target0)

MinLen == Min(Len(source), Len(target0))

\* Source or target of this run is an empty file.
EmptyStream == Len(source) = 0 \/ Len(target0) = 0

\* Number of blocks of a file, the last one possibly short.
NumBlocks(f) == (Len(f) + BlockSize - 1) \div BlockSize

\* Block k (from 0) of a file.
Block(f, k) == SubSeq(f, k * BlockSize + 1, Min(Len(f), (k + 1) * BlockSize))

\* Indices of the blocks in which source and target differed at the start.
DiffBlocks ==
    {k \in 0 .. (NumBlocks(source) - 1) : Block(source, k) # Block(target0, k)}

\* Equality of two buffers over their valid bytes only.
ValidEq(a, b) ==
    /\ a.length = b.length
    /\ \A i \in 1 .. a.length : a.data[i] = b.data[i]

\* Stream offset of pair k (from 0): the lengths of the pairs before it.
RECURSIVE PairOffset(_)
PairOffset(k) ==
    IF k = 0 THEN 0
    ELSE PairOffset(k - 1) + ReadLen(source, PairOffset(k - 1))

\* 1 when a variable holds a buffer, 0 when it holds none.
Holds(v) == IF v = NoBuf THEN 0 ELSE 1

\* Number of buffers in the pool, in main's variables, in the channels and
\* in the three tasks.
BufferCount ==
    Len(buffers) + Holds(bsrc) + Holds(btgt) + Holds(bsrc_) + Holds(btgt_)
    + Holds(bw) + Len(src_fw) + Len(src_bk) + Len(tgt_r_fw) + Len(tgt_r_bk)
    + Len(tgt_w_fw) + Len(tgt_w_bk) + Holds(src_buf) + Holds(tgt_r_buf)
    + Holds(w_buf)

\* Every place a buffer can be in, as one sequence of buffer identities.
Places ==
    buffers \o <<bsrc, btgt, bsrc_, btgt_, bw>> \o src_fw \o src_bk
    \o tgt_r_fw \o tgt_r_bk \o [i \in 1 .. Len(tgt_w_fw) |-> tgt_w_fw[i].buf]
    \o tgt_w_bk \o <<src_buf, tgt_r_buf, w_buf>>

\* The buffers that are somewhere, one entry per place that holds one.
Owned == SelectSeq(Places, LAMBDA b : b # NoBuf)

\* ------------------------------------------------------------------------
\* Properties
\* ------------------------------------------------------------------------

\* C1: for a source and a target of equal length, when main leaves the loop
\* and reports its counts the target's content equals the source's content.
C1_TargetEqualsSource ==
    (pc = "done" /\ EqualLength) => target = source

\* C2: when source and target have equal length and differ in exactly one
\* block, of index k, the run issues exactly one write request, at position
\* k * BlockSize, and the writer writes exactly that block's valid length.
C2_SingleDifferingBlock ==
    (pc = "done" /\ EqualLength /\ Cardinality(DiffBlocks) = 1) =>
        LET k == CHOOSE d \in DiffBlocks : TRUE
            req == [pos |-> k * BlockSize, len |-> Len(Block(source, k))]
        IN  requests = <<req>> /\ written = <<req>>

\* C3: for byte-identical source and target no write request is ever sent,
\* the target is never written and diff stays 0.
C3_IdenticalNoWrite ==
    (source = target0) =>
        /\ requests = <<>>
        /\ written = <<>>
        /\ tgt_w_fw = <<>>
        /\ target = target0
        /\ diff = 0

C3_Witness ==
    /\ pc = "done"
    /\ source = target0
    /\ Len(source) > 2 * BlockSize
    /\ compared = NumBlocks(source)

\* C4: a compared pair produces a write request if and only if the two
\* buffers differ in their valid bytes [0, length).
C4_WriteIffValidBytesDiffer ==
    [][(pc = "loop" /\ pc' \in {"join_eq", "join_diff"}) =>
          (pc' = "join_diff" <=> ~ ValidEq(buf[bsrc], buf[btgt]))]_vars

\* C5: when main reports its counts, total is the number of pairs compared
\* and diff is the number of pairs for which a write request was issued.
C5_CountsReported ==
    pc = "done" => (total = compared /\ diff = Len(requests))

\* C6: for a source and a target of equal length, a second run on the
\* result of the first issues no write request and reports diff = 0.
C6_SecondRunIdle ==
    (run = 2 /\ EqualLength) => (requests = <<>> /\ diff = 0)

\* C7: when the lengths differ the loop ends, without error, at the first
\* pair whose lengths differ or where one is 0, no write request is issued
\* for that pair, and every write lies within [0, MinLen).
C7_LengthMismatch ==
    LenDiffer =>
        /\ \A i \in 1 .. Len(written) :
              written[i].pos + written[i].len <= MinLen
        /\ \A i \in 1 .. Len(requests) :
              requests[i].pos + requests[i].len <= MinLen
        /\ Len(target) = Len(target0)
        /\ compared <= MinLen \div BlockSize
        /\ Len(requests) <= compared
        /\ pc = "done" =>
              /\ compared = MinLen \div BlockSize
              /\ Done(buf[bsrc], buf[btgt])
              /\ Len(written) = Len(requests)
        /\ pc # "done" => ENABLED Next

C7_Witness ==
    /\ pc = "done"
    /\ LenDiffer
    /\ written # <<>>
    /\ compared >= 1
    /\ buf[bsrc].length # 0 /\ buf[btgt].length # 0

\* C8: if the source or the target is empty the loop ends on the first
\* pair, no write request is ever issued and both counts are 0.
C8_EmptyStream ==
    EmptyStream =>
        /\ compared = 0
        /\ requests = <<>>
        /\ written = <<>>
        /\ total = 0 /\ diff = 0
        /\ pc = "loop" => Done(buf[bsrc], buf[btgt])

C8_Witness ==
    /\ pc = "done"
    /\ Len(source) = 0
    /\ Len(target0) > BlockSize
    /\ total = 0 /\ diff = 0

C10_ExclusiveOwnership ==
    /\ Len(Owned) = PoolSize
    /\ {Owned[i] : i \in 1 .. Len(Owned)} = BufIds

C10_Witness ==
    /\ w_pc = "write"
    /\ src_pc = "read"
    /\ tgt_r_pc = "read"
    /\ compared >= 2

\* C11: whenever main holds a pair at the top of the loop, pos is the sum of
\* the lengths of the pairs consumed before, equal or differing, which is
\* the stream offset at which the pair was read.
C11_PositionIsOffset ==
    pc = "loop" =>
        /\ pos = PairOffset(compared)
        /\ pos = filled[bsrc].off

\* C12: the i-th pair main holds is the buffer of the source reader's i-th
\* read and the buffer of the target reader's i-th read, both read at the
\* same stream offset, and the source buffer holds the source's bytes there.
C12_Lockstep ==
    pc = "loop" =>
        /\ filled[bsrc] = FilledBy("src", compared + 1, PairOffset(compared))
        /\ filled[btgt] = FilledBy("tgt", compared + 1, PairOffset(compared))
        /\ as_slice(buf[bsrc]) =
              SubSeq(source, filled[bsrc].off + 1,
                     filled[bsrc].off + buf[bsrc].length)

C12_Witness ==
    /\ pc = "loop"
    /\ compared >= 2
    /\ branch = "differ"
    /\ ~ Done(buf[bsrc], buf[btgt])

\* The source reader's read that this step performs returns 0 bytes.
SrcReadsZero == reads'.src = reads.src + 1 /\ ReadLen(source, src_cur) = 0

\* The target reader's read that this step performs returns 0 bytes.
TgtReadsZero == reads'.tgt = reads.tgt + 1 /\ ReadLen(target, tgt_cur) = 0

\* The buffers a read of 0 bytes of reader r filled.
ZeroReadBufs(r) == {b \in BufIds : filled[b].by = r /\ buf[b].length = 0}

\* C13 as stated: a reader whose read returns 0 bytes does not send the
\* buffer on its result channel and terminates.
C13_ZeroReadEndsReader ==
    [][/\ SrcReadsZero => (src_bk' = src_bk /\ src_pc' = "ended")
       /\ TgtReadsZero => (tgt_r_bk' = tgt_r_bk /\ tgt_r_pc' = "ended")]_vars

\* C13 amended: a reader whose read returns 0 bytes sends the buffer, with
\* length 0, on its result channel and waits on its forward channel again;
\* it is handed no further buffer, so it reads and sends nothing more.
C13_ZeroReadIsSent ==
    /\ [][/\ SrcReadsZero =>
                /\ src_bk' = Append(src_bk, src_buf)
                /\ buf'[src_buf].length = 0
                /\ src_pc' = "recv"
          /\ TgtReadsZero =>
                /\ tgt_r_bk' = Append(tgt_r_bk, tgt_r_buf)
                /\ buf'[tgt_r_buf].length = 0
                /\ tgt_r_pc' = "recv"]_vars
    /\ [](\A b \in ZeroReadBufs("src") :
             src_pc = "recv" /\ src_fw = <<>> /\ reads.src = filled[b].idx)
    /\ [](\A b \in ZeroReadBufs("tgt") :
             tgt_r_pc = "recv" /\ tgt_r_fw = <<>> /\ reads.tgt = filled[b].idx)

C13_Witness ==
    /\ pc = "done"
    /\ Len(source) > BlockSize
    /\ bsrc \in ZeroReadBufs("src")
    /\ btgt \in ZeroReadBufs("tgt")
    /\ src_pc = "recv" /\ tgt_r_pc = "recv"

\* C14: under fair scheduling, with no I/O failure, main eventually leaves
\* the loop and reports its counts.
C14_Terminates == <>(pc = "done")

C14_Witness ==
    /\ pc = "done"
    /\ compared >= 2
    /\ diff >= 1
    /\ written = requests

\* Some task has failed fatally.
Failed == TaskEnded(src_pc) \/ TaskEnded(tgt_r_pc) \/ TaskEnded(w_pc)

\* C15: the counts are never reported while one of the three tasks is still
\* running.
C15_ReportAfterTasksEnd ==
    pc = "done" =>
        TaskEnded(src_pc) /\ TaskEnded(tgt_r_pc) /\ TaskEnded(w_pc)

\* C16: once a task has failed main issues no new work, never reports the
\* counts, and eventually ends instead of waiting on a channel for ever.
C16_FailureEndsMain ==
    /\ [](Failed => pc # "done")
    /\ [][Failed => /\ Len(src_fw') <= Len(src_fw)
                    /\ Len(tgt_r_fw') <= Len(tgt_r_fw)
                    /\ requests' = requests]_vars
    /\ Failed ~> (pc = "panicked")

C16_Witness ==
    /\ pc = "panicked"
    /\ w_pc = "ended"
    /\ ~ TaskEnded(src_pc) /\ ~ TaskEnded(tgt_r_pc)
    /\ compared >= 2
    /\ written # <<>>

\* The buffer this step appended to a channel of buffers.
Sent(ch) == ch[Len(ch)]

C18_PoolHoldsTwo == pc = "loop" => Len(buffers) = 2

C18_Witness ==
    /\ pc = "loop"
    /\ ~ Done(buf[bsrc], buf[btgt])
    /\ diff >= 1
    /\ branch = "equal"
    /\ Len(buffers) = 2

\* C19: at most one write request is outstanding, and outside the join! of
\* the differing branch (so at every comparison and at the report) every
\* request issued has been performed by the writer.
C19_OneOutstandingWrite ==
    /\ Len(tgt_w_fw) + Holds(w_buf) <= 1
    /\ Len(requests) - Len(written) \in {0, 1}
    /\ written = SubSeq(requests, 1, Len(written))
    /\ pc # "join_diff" => written = requests
    /\ (pc = "join_diff" /\ bw # NoBuf) => written = requests

C19_Witness ==
    /\ pc = "done"
    /\ Len(requests) >= 2
    /\ written = requests

\* C20: every write ends at or before the target reader's cursor, so the
\* part of the target not yet read and every block the target reader has
\* returned hold the target's original content.
C20_WriteBehindReader ==
    /\ [][written' # written =>
              Sent(written').pos + Sent(written').len <= tgt_cur]_vars
    /\ [](Len(target) = Len(target0))
    /\ [](\A i \in (tgt_cur + 1) .. Len(target) :
             i <= Len(target0) /\ target[i] = target0[i])
    /\ [](\A b \in BufIds :
             filled[b].by = "tgt" =>
                 as_slice(buf[b]) =
                     SubSeq(target0, filled[b].off + 1,
                            filled[b].off + buf[b].length))

C20_Witness ==
    /\ w_pc = "write"
    /\ tgt_r_pc = "read"
    /\ tgt_cur < Len(target)
    /\ written # <<>>

====
